---- MODULE Spec2Model ----
(***************************************************************************)
(* A model of the Domo API client: the credential store of src/auth.rs     *)
(* (DomoClientAppCredentials: construction, get_access_token, the scope    *)
(* string, the token fetch) and the dataset builders of                    *)
(* src/domo/data/datasets.rs (list, info, delete, query_data, get_data,    *)
(* upload), with the token endpoint and the dataset endpoints as a         *)
(* nondeterministic environment.                                           *)
(*                                                                         *)
(* Strings the code builds by concatenation are sequences of their parts,  *)
(* so that separators and their positions are visible; Option<T> is a      *)
(* sequence of length 0 (None) or 1 (Some).                                *)
(***************************************************************************)
EXTENDS Integers, Sequences, FiniteSets, TLC

VARIABLES
    cred,        \* auth.rs: the DomoClientAppCredentials instance
    phase,       \* auth.rs: "building" | "built" | "panicked"
    calls,       \* number of get_access_token calls made on cred
    ret,         \* what the last get_access_token call returned
    lastFetch,   \* the token endpoint's answer to the last fetch of cred
    sawFailure,  \* some fetch of cred was not answered with a parsed 2xx
    stderr,      \* lines written by eprintln!
    tokenReqs,   \* number of POSTs the token endpoint has received
    authSent,    \* the token requests sent: scope string and basic auth
    cache,       \* the token cache of the shared client's auth (Option<DomoToken>)
    issued,      \* the access tokens the token endpoint has issued to the client
    fixture,     \* number of datasets the platform holds
    units,       \* per execution unit: its builder and where its execute() stands
    lastOp,      \* the last builder method called: <<unit, name>>
    opsDone,     \* operations the sequential caller has finished
    mainPc,      \* the threaded test's main thread
    spawned,     \* threads the test has spawned
    joined,      \* handles the test has joined
    ds           \* the threaded test's collected datasets

authVars == <<cred, phase, calls, ret, lastFetch, sawFailure, stderr, authSent>>
testVars == <<mainPc, spawned, joined, ds>>
vars == <<cred, phase, calls, ret, lastFetch, sawFailure, stderr, tokenReqs, authSent,
          cache, issued, fixture, units, lastOp, opsDone, mainPc, spawned, joined, ds>>

\* ------------------------------------------------------------- bounds

\* get_access_token calls made on one Credentials instance
MaxCalls == 3

\* operations the sequential caller of the dataset API runs, one after another
MaxOps == 2

\* threads of the threaded list test (41 in the test)
NumThreads == 3

\* the two sizes of the platform's dataset fixture: fewer records than a
\* page, and more than the default limit
SmallFixture == 4
LargeFixture == 52

\* ------------------------------------------------------------ Option

None == <<>>
Some(x) == <<x>>
IsSome(o) == o # <<>>
Unwrap(o) == o[1]

\* ------------------------------------------------------- auth.rs data

\* DomoToken::default(): every field empty
DomoTokenDefault == [access_token |-> "", token_type |-> ""]

\* The tokens the token endpoint issues
IssuedTokens ==
    { [access_token |-> a, token_type |-> "bearer"] : a \in {"tokA", "tokB"} }

\* The tokens a caller can hand to token_info: an issued one, or one built
\* from DomoToken::default() whose access_token is still empty
Tokens == IssuedTokens \cup {DomoTokenDefault}

ScopeNames == <<"data", "user", "audit", "dashboard">>

DomoScope ==
    [data : BOOLEAN, user : BOOLEAN, audit : BOOLEAN, dashboard : BOOLEAN,
     buzz : BOOLEAN, account : BOOLEAN, workflow : BOOLEAN]

\* The environment DomoClientAppCredentials::default() reads
EnvVars ==
    [CLIENT_ID : {None, Some("id")}, CLIENT_SECRET : {None, Some("secret")},
     DATA_SCOPE : BOOLEAN, USER_SCOPE : BOOLEAN, AUDIT_SCOPE : BOOLEAN,
     DASHBOARD_SCOPE : BOOLEAN]

unwrap_or_default(o) == IF IsSome(o) THEN Unwrap(o) ELSE ""

\* DomoClientAppCredentials::default()
CredDefault(env) ==
    LET all == env.DATA_SCOPE /\ env.USER_SCOPE /\ env.AUDIT_SCOPE /\ env.DASHBOARD_SCOPE
    IN  [client_id     |-> unwrap_or_default(env.CLIENT_ID),
         client_secret |-> unwrap_or_default(env.CLIENT_SECRET),
         token         |-> None,
         domo_scope    |->
            IF all
            THEN [data |-> env.DATA_SCOPE, user |-> env.USER_SCOPE,
                  audit |-> env.AUDIT_SCOPE, dashboard |-> env.DASHBOARD_SCOPE,
                  buzz |-> FALSE, account |-> FALSE, workflow |-> FALSE]
            ELSE [data |-> TRUE, user |-> FALSE, audit |-> FALSE, dashboard |-> FALSE,
                  buzz |-> FALSE, account |-> FALSE, workflow |-> FALSE]]

\* ------------------------------------------------ auth.rs: the scope string

\* A mutant of AppendScope: the separator is written before every name
AppendScopeAlwaysSeparated(scopes, flag, name) ==
    IF flag THEN scopes \o <<"%20">> \o <<name>> ELSE scopes

\* One `if self.domo_scope.X { if !scopes.is_empty() { "%20" } X }` block
AppendScope(scopes, flag, name) ==
    IF flag
    THEN (IF scopes # <<>> THEN scopes \o <<"%20">> ELSE scopes) \o <<name>>
    ELSE scopes

\* The scope string request_access_token builds
Scopes(sc) ==
    AppendScope(
        AppendScope(
            AppendScope(
                AppendScope(<<>>, sc.data, "data"),
                sc.user, "user"),
            sc.audit, "audit"),
        sc.dashboard, "dashboard")

\* ------------------------------------------------ auth.rs: the token fetch

\* What the token endpoint can answer: no answer at all (the send fails), or
\* a status with a body that parses as a DomoToken (json) or does not
TokenResponses ==
    {[sent |-> FALSE, status |-> 0, json |-> None]}
    \cup {[sent |-> TRUE, status |-> 200, json |-> j] :
            j \in {None} \cup {Some(t) : t \in IssuedTokens}}
    \cup {[sent |-> TRUE, status |-> 401, json |-> None]}

is_success(status) == status >= 200 /\ status <= 299

\* fetch_access_token: expect() and unwrap() panic, a non-2xx gives None
fetch_access_token(resp) ==
    IF ~resp.sent
    THEN [panic |-> TRUE, token |-> None, err |-> <<>>]
    ELSE IF is_success(resp.status)
    THEN IF IsSome(resp.json)
         THEN [panic |-> FALSE, token |-> Some(Unwrap(resp.json)), err |-> <<>>]
         ELSE [panic |-> TRUE, token |-> None, err |-> <<>>]
    ELSE [panic |-> FALSE, token |-> None, err |-> <<"Error getting Domo Token">>]

\* The request request_access_token sends
TokenRequest(c) ==
    [scope |-> Scopes(c.domo_scope), user |-> c.client_id, password |-> c.client_secret]

\* request_access_token: the fetch's Option<DomoToken>, passed through
request_access_token(c, resp) == fetch_access_token(resp)

String(s) == [type |-> "String", value |-> s]
NoRet == [type |-> "none", value |-> ""]

\* A mutant of get_access_token: the cache is not consulted
get_access_token_uncached(c, resp) ==
    LET r == request_access_token(c, resp)
    IN  [requested |-> TRUE, panic |-> r.panic, err |-> r.err,
         ret |-> IF IsSome(r.token) THEN String(Unwrap(r.token).access_token)
                 ELSE String("")]

\* get_access_token(&self): the cached token's access_token, or a fetch whose
\* token is returned and not stored (self is borrowed immutably), or
\* String::new() when the fetch gave None
get_access_token(c, resp) ==
    IF IsSome(c.token)
    THEN [requested |-> FALSE, panic |-> FALSE, err |-> <<>>,
          ret |-> String(Unwrap(c.token).access_token)]
    ELSE LET r == request_access_token(c, resp)
         IN  [requested |-> TRUE, panic |-> r.panic, err |-> r.err,
              ret |-> IF IsSome(r.token) THEN String(Unwrap(r.token).access_token)
                      ELSE String("")]

\* ------------------------------------------- auth.rs: the builder methods

NoFetch == [sent |-> FALSE, status |-> -1, json |-> None]

\* The credentials as DomoClientAppCredentials::default() leaves them
AuthStart ==
    /\ \E env \in EnvVars : cred = CredDefault(env)
    /\ phase = "building"
    /\ calls = 0
    /\ ret = NoRet
    /\ lastFetch = NoFetch
    /\ sawFailure = FALSE
    /\ stderr = <<>>
    /\ authSent = {}

dataVars == <<cache, issued, fixture, units, lastOp, opsDone, mainPc, spawned, joined, ds>>

AuthFrame ==
    UNCHANGED <<phase, calls, ret, lastFetch, sawFailure, stderr, tokenReqs, authSent, dataVars>>

client_id ==
    /\ phase = "building"
    /\ \E s \in {"", "id"} : cred' = [cred EXCEPT !.client_id = s]
    /\ AuthFrame

client_secret ==
    /\ phase = "building"
    /\ \E s \in {"", "secret"} : cred' = [cred EXCEPT !.client_secret = s]
    /\ AuthFrame

client_scope ==
    /\ phase = "building"
    /\ \E sc \in DomoScope : cred' = [cred EXCEPT !.domo_scope = sc]
    /\ AuthFrame

with_scope ==
    /\ phase = "building"
    /\ \E f \in {"user", "data", "audit", "dashboard", "buzz", "workflow", "account"} :
          cred' = [cred EXCEPT !.domo_scope[f] = TRUE]
    /\ AuthFrame

token_info ==
    /\ phase = "building"
    /\ \E t \in Tokens : cred' = [cred EXCEPT !.token = Some(t)]
    /\ AuthFrame

build ==
    /\ phase = "building"
    /\ phase' = "built"
    /\ stderr' = IF cred.client_id = "" \/ cred.client_secret = ""
                 THEN Append(stderr, "Set your Domo API Credentials")
                 ELSE stderr
    /\ UNCHANGED <<cred, calls, ret, lastFetch, sawFailure, tokenReqs, authSent, dataVars>>

\* One call of get_access_token on the built credentials
GetAccessToken ==
    /\ phase = "built"
    /\ calls < MaxCalls
    /\ \E resp \in TokenResponses :
          LET out == get_access_token(cred, resp)
          IN  /\ calls' = calls + 1
              /\ tokenReqs' = IF out.requested THEN tokenReqs + 1 ELSE tokenReqs
              /\ authSent' = IF out.requested THEN authSent \cup {TokenRequest(cred)}
                             ELSE authSent
              /\ lastFetch' = IF out.requested THEN resp ELSE lastFetch
              /\ sawFailure' = (sawFailure \/
                                (out.requested /\
                                 ~(resp.sent /\ is_success(resp.status) /\ IsSome(resp.json))))
              /\ stderr' = stderr \o out.err
              /\ phase' = IF out.panic THEN "panicked" ELSE phase
              /\ ret' = IF out.panic THEN NoRet ELSE out.ret
              /\ UNCHANGED <<cred, dataVars>>

NextAuth ==
    \/ client_id
    \/ client_secret
    \/ client_scope
    \/ with_scope
    \/ token_info
    \/ build
    \/ GetAccessToken


\* ------------------------------------------- datasets.rs: values on the wire

\* Result<T, Box<dyn Error>>
Ok(v) == [ok |-> TRUE, val |-> v]
Err(e) == [ok |-> FALSE, err |-> e]

\* DomoErr(String): the message as the parts format! joins
DomoErr(msg) == [kind |-> "DomoErr", msg |-> msg]

\* The error body_json gives for a body that is not the expected JSON
DecodeErr == [kind |-> "Decode", msg |-> <<>>]

\* The error send gives when the request gets no response
TransportErr == [kind |-> "Transport", msg |-> <<>>]

\* StatusCode::canonical_reason
canonical_reason(status) ==
    CASE status = 200 -> "OK"
      [] status = 401 -> "Unauthorized"
      [] status = 404 -> "Not Found"
      [] OTHER        -> "Unknown"

DatasetIds == {"ds1"}
SqlQueries == {"SELECT * FROM table"}
SortValues == {"name", "updatedAt"}

\* A response body: its text, and what decoding it as the JSON the operation
\* expects gives (None: it does not decode)
Body(text, json) == [text |-> text, json |-> json]

body_json(resp) == IF IsSome(resp.body.json) THEN Ok(Unwrap(resp.body.json)) ELSE Err(DecodeErr)
body_string(resp) == resp.body.text
body_bytes(resp) == Ok(resp.body.text)

\* ------------------------------------------- datasets.rs: the builders

\* The limit the list builder starts with
DefaultLimit == 50

\* The page size the tests ask for: limit(5)
PageSize == 5

LimitValues == {0, PageSize}
OffsetValues == {0, PageSize, DefaultLimit}

\* DatasetApiListBuilder::new
ListNew == [limit |-> Some(DefaultLimit), offset |-> None, sort |-> Some("name")]

\* A mutant of ListLimit: the setter also resets the offset
ListLimitResetsOffset(b, n) == [b EXCEPT !.limit = Some(n), !.offset = None]

\* A mutant of ListOffset: the offset is not stored
ListOffsetDropped(b, n) == b

\* DatasetApiListBuilder::limit / offset / sort
ListLimit(b, n) == [b EXCEPT !.limit = Some(n)]
ListOffset(b, n) == [b EXCEPT !.offset = Some(n)]
ListSort(b, s) == [b EXCEPT !.sort = Some(s)]

\* DatasetApiGetDataBuilder::new / with_csv_headers
GetDataNew(id) == [dataset_id |-> id, include_headers |-> FALSE]
WithCsvHeaders(b) == [b EXCEPT !.include_headers = TRUE]

\* DatasetApiQueryDataBuilder::new
QueryDataNew(id, sql) == [dataset_id |-> id, sql_query |-> sql]

\* DatasetApiUploadBuilder::new
UploadNew(id) == [dataset_id |-> id, data |-> None]

\* The rows a caller hands to data(): records that serialize, or one that
\* does not
RowSets == {<<"1,2">>, <<"1,2", "3,4">>, <<"unserializable">>}
CsvStrings == {<<"a,b", "1,2">>}

\* util::csv::serialize_csv_str(rows, false): the rows as CSV lines without
\* a header row, or the serializer's error
serialize_csv_str(rows, headers) ==
    IF \E i \in 1..Len(rows) : rows[i] = "unserializable"
    THEN Err([kind |-> "Csv", msg |-> <<>>])
    ELSE Ok(IF headers THEN <<"header">> \o rows ELSE rows)

\* DatasetApiUploadBuilder::data: the field is set only when the rows serialize
UploadData(b, rows) ==
    LET csv == serialize_csv_str(rows, FALSE)
    IN  IF csv.ok THEN [b EXCEPT !.data = Some(csv.val)] ELSE b

\* DatasetApiUploadBuilder::csv_str
UploadCsvStr(b, csv) == [b EXCEPT !.data = Some(csv)]

\* ------------------------------------------- datasets.rs: the requests

\* format!("Bearer {}", token)
Bearer(token) == <<"Bearer ", token>>

\* .query(self): the serialized fields of a builder, a None field left out
QueryOf(b, keys) == [k \in {k \in keys : IsSome(b[k])} |-> Unwrap(b[k])]

NoQuery == [k \in {} |-> 0]

\* A mutant of ListRequest: the query is that of a new builder
ListRequestDefaults(b, token) ==
    [method |-> "GET", path |-> <<"/v1/datasets">>,
     query |-> QueryOf(ListNew, {"limit", "offset", "sort"}),
     auth |-> Bearer(token), content_type |-> None, body |-> None]

\* A mutant of ListRequest: the Authorization header carries no token
ListRequestNoToken(b, token) ==
    [method |-> "GET", path |-> <<"/v1/datasets">>,
     query |-> QueryOf(b, {"limit", "offset", "sort"}),
     auth |-> Bearer(""), content_type |-> None, body |-> None]

\* DatasetApiListBuilder::execute: the request
ListRequest(b, token) ==
    [method |-> "GET", path |-> <<"/v1/datasets">>,
     query |-> QueryOf(b, {"limit", "offset", "sort"}),
     auth |-> Bearer(token), content_type |-> None, body |-> None]

\* DatasetApiBuilder::info: the request
InfoRequest(b, token) ==
    [method |-> "GET", path |-> <<"/v1/datasets/", b.dataset_id>>,
     query |-> NoQuery,
     auth |-> Bearer(token), content_type |-> None, body |-> None]

\* DatasetApiBuilder::delete: the request
DeleteRequest(b, token) ==
    [method |-> "DELETE", path |-> <<"/v1/datasets/", b.dataset_id>>,
     query |-> NoQuery,
     auth |-> Bearer(token), content_type |-> None, body |-> None]

\* DatasetApiQueryDataBuilder::execute: the request
QueryDataRequest(b, token) ==
    [method |-> "POST", path |-> <<"/v1/datasets/query/execute/", b.dataset_id>>,
     query |-> NoQuery,
     auth |-> Bearer(token), content_type |-> None,
     body |-> Some([sql |-> b.sql_query])]

\* DatasetApiGetDataBuilder::execute: the request
GetDataRequest(b, token) ==
    [method |-> "GET", path |-> <<"/v1/datasets/", b.dataset_id, "/data">>,
     query |-> [includeHeader |-> b.include_headers],
     auth |-> Bearer(token), content_type |-> None, body |-> None]

\* A mutant of UploadBody: a builder without data uploads an empty body
UploadBodyOrEmpty(b) == IF IsSome(b.data) THEN Ok(Unwrap(b.data)) ELSE Ok(<<>>)

\* self.data.as_ref().ok_or(DomoErr("No Data was set to upload"))
UploadBody(b) ==
    IF IsSome(b.data) THEN Ok(Unwrap(b.data))
    ELSE Err(DomoErr(<<"No Data was set to upload">>))

\* DatasetApiUploadBuilder::execute: the request, with the body that was set
UploadRequest(b, token) ==
    [method |-> "PUT", path |-> <<"/v1/datasets/", b.dataset_id, "/data">>,
     query |-> NoQuery,
     auth |-> Bearer(token), content_type |-> Some("text/csv"),
     body |-> Some(UploadBody(b).val)]

\* ------------------------------------------- datasets.rs: the responses

\* The error of the operations that check the status and read the body
StatusAndBodyErr(resp) ==
    Err(DomoErr(<<canonical_reason(resp.status), ": ", body_string(resp)>>))

\* info, list: the body is decoded whatever the status
InfoResult(resp) == body_json(resp)
ListResult(resp) == body_json(resp)

\* get_data: the body's bytes whatever the status
GetDataResult(resp) == body_bytes(resp)

\* delete: the status decides; the error is the status reason alone
DeleteResult(resp) ==
    IF is_success(resp.status) THEN Ok(<<>>)
    ELSE Err(DomoErr(<<canonical_reason(resp.status)>>))

\* upload: the status decides; the error is "reason: body"
UploadResult(resp) ==
    IF is_success(resp.status) THEN Ok(<<>>) ELSE StatusAndBodyErr(resp)

\* query_data: the status decides; the error is "reason: body"
QueryDataResult(resp) ==
    IF is_success(resp.status) THEN body_json(resp) ELSE StatusAndBodyErr(resp)

RequestFor(op, b, token) ==
    CASE op = "list"       -> ListRequest(b, token)
      [] op = "info"       -> InfoRequest(b, token)
      [] op = "delete"     -> DeleteRequest(b, token)
      [] op = "query_data" -> QueryDataRequest(b, token)
      [] op = "get_data"   -> GetDataRequest(b, token)
      [] op = "upload"     -> UploadRequest(b, token)

ResultFor(op, resp) ==
    IF ~resp.sent THEN Err(TransportErr)
    ELSE CASE op = "list"       -> ListResult(resp)
           [] op = "info"       -> InfoResult(resp)
           [] op = "delete"     -> DeleteResult(resp)
           [] op = "query_data" -> QueryDataResult(resp)
           [] op = "get_data"   -> GetDataResult(resp)
           [] op = "upload"     -> UploadResult(resp)

\* ------------------------------------------- the platform's dataset endpoints

Min(a, b) == IF a < b THEN a ELSE b

\* The fixture's datasets, numbered by name order, in the order `sort` asks for
Sorted(n, sort) ==
    IF sort = "name" THEN [i \in 1..n |-> i] ELSE [i \in 1..n |-> n + 1 - i]

\* GET /v1/datasets?limit=&offset=&sort=: one page of the sorted fixture
Page(n, q) ==
    LET limit  == IF "limit" \in DOMAIN q THEN q.limit ELSE DefaultLimit
        offset == IF "offset" \in DOMAIN q THEN q.offset ELSE 0
        sort   == IF "sort" \in DOMAIN q THEN q.sort ELSE "name"
    IN  SubSeq(Sorted(n, sort), offset + 1, Min(offset + limit, n))

\* The body a dataset endpoint sends with a 2xx
SuccessBody(op, req, n) ==
    CASE op = "list"       -> Body("json", Some(Page(n, req.query)))
      [] op = "info"       -> Body("json", Some([id |-> req.path[2]]))
      [] op = "delete"     -> Body("", None)
      [] op = "query_data" -> Body("json", Some([datasource |-> req.path[2], rows |-> <<>>]))
      [] op = "get_data"   -> Body(IF req.query.includeHeader THEN "csv with header" ELSE "csv",
                                   None)
      [] op = "upload"     -> Body("", None)

\* The bodies sent with a non-2xx: text that is no JSON of the expected type,
\* or JSON that happens to decode as it (an empty value)
ErrorBodies == {Body("error text", None), Body("error json", Some(<<>>))}

\* What a dataset endpoint can answer to a request: nothing (the send
\* fails), a 2xx with the operation's payload, or a non-2xx with an error body
ResourceResponses(op, req, n) ==
    {[sent |-> FALSE, status |-> 0, body |-> Body("", None)]}
    \cup {[sent |-> TRUE, status |-> 200, body |-> SuccessBody(op, req, n)]}
    \cup {[sent |-> TRUE, status |-> 404, body |-> eb] : eb \in ErrorBodies}

\* ------------------------------------------- the shared client's get_token

\* An error of get_token: its kind, and the status it carries
AuthErr(kind, status) == [kind |-> kind, msg |-> <<canonical_reason(status)>>]

\* get_token after the token endpoint answered: the parsed token, or a typed
\* error
get_token_result(resp) ==
    IF ~resp.sent THEN Err(AuthErr("HttpRequestFailed", 0))
    ELSE IF ~is_success(resp.status) THEN Err(AuthErr("AuthRequestFailed", resp.status))
    ELSE IF IsSome(resp.json) THEN Ok(Unwrap(resp.json))
    ELSE Err(AuthErr("AuthDeserializeFailed", resp.status))

\* ------------------------------------------- the execution units

\* Unit 0 is the sequential caller; 1..NumThreads are the test's threads
Caller == 0
Threads == 1..NumThreads
Units == {Caller} \cup Threads

NoBuilder == [dataset_id |-> ""]

IdleUnit ==
    [pc |-> "idle", op |-> "none", b |-> NoBuilder, token |-> None,
     req |-> None, resp |-> None, result |-> None]

Configuring(op, b) == [IdleUnit EXCEPT !.pc = "configuring", !.op = op, !.b = b]
Called(op, b) == [IdleUnit EXCEPT !.pc = "exec", !.op = op, !.b = b]

DataStart ==
    /\ tokenReqs = 0
    /\ cache = None
    /\ issued = {}
    /\ units = [u \in Units |-> IdleUnit]
    /\ lastOp = <<Caller, "none">>
    /\ opsDone = 0
    /\ spawned = 0
    /\ joined = 0
    /\ ds = <<>>

\* Everything but the units, the last call and what an action names
Untouched == UNCHANGED <<authVars, fixture, testVars>>
NoIO == UNCHANGED <<tokenReqs, cache, issued, opsDone>>

\* datasets().list() / .get_data(id) / .query_data(id, sql) / .upload(id)
New(u) ==
    /\ units[u].pc = "idle"
    /\ opsDone < MaxOps
    /\ \E id \in DatasetIds, sql \in SqlQueries :
        \E nb \in {<<"list", ListNew>>, <<"get_data", GetDataNew(id)>>,
                   <<"query_data", QueryDataNew(id, sql)>>, <<"upload", UploadNew(id)>>} :
            /\ units' = [units EXCEPT ![u] = Configuring(nb[1], nb[2])]
            /\ lastOp' = <<u, nb[1]>>
    /\ NoIO /\ Untouched

\* datasets().info(id) / .delete(id): the future, not yet polled
Call(u) ==
    /\ units[u].pc = "idle"
    /\ opsDone < MaxOps
    /\ \E id \in DatasetIds, op \in {"info", "delete"} :
            /\ units' = [units EXCEPT ![u] = Called(op, [dataset_id |-> id])]
            /\ lastOp' = <<u, op>>
    /\ NoIO /\ Untouched

Limit(u) ==
    /\ units[u].pc = "configuring" /\ units[u].op = "list"
    /\ \E n \in LimitValues : units' = [units EXCEPT ![u].b = ListLimit(@, n)]
    /\ lastOp' = <<u, "limit">>
    /\ NoIO /\ Untouched

Offset(u) ==
    /\ units[u].pc = "configuring" /\ units[u].op = "list"
    /\ \E n \in OffsetValues : units' = [units EXCEPT ![u].b = ListOffset(@, n)]
    /\ lastOp' = <<u, "offset">>
    /\ NoIO /\ Untouched

Sort(u) ==
    /\ units[u].pc = "configuring" /\ units[u].op = "list"
    /\ \E s \in SortValues : units' = [units EXCEPT ![u].b = ListSort(@, s)]
    /\ lastOp' = <<u, "sort">>
    /\ NoIO /\ Untouched

with_csv_headers(u) ==
    /\ units[u].pc = "configuring" /\ units[u].op = "get_data"
    /\ units' = [units EXCEPT ![u].b = WithCsvHeaders(@)]
    /\ lastOp' = <<u, "with_csv_headers">>
    /\ NoIO /\ Untouched

data(u) ==
    /\ units[u].pc = "configuring" /\ units[u].op = "upload"
    /\ \E rows \in RowSets : units' = [units EXCEPT ![u].b = UploadData(@, rows)]
    /\ lastOp' = <<u, "data">>
    /\ NoIO /\ Untouched

csv_str(u) ==
    /\ units[u].pc = "configuring" /\ units[u].op = "upload"
    /\ \E csv \in CsvStrings : units' = [units EXCEPT ![u].b = UploadCsvStr(@, csv)]
    /\ lastOp' = <<u, "csv_str">>
    /\ NoIO /\ Untouched

\* execute(): the future, not yet polled
Execute(u) ==
    /\ units[u].pc = "configuring"
    /\ units' = [units EXCEPT ![u].pc = "exec"]
    /\ lastOp' = <<u, "execute">>
    /\ NoIO /\ Untouched

\* get_token, up to its await: the cached token, or a request to the token
\* endpoint
GetTokenStart(u) ==
    /\ units[u].pc = "exec"
    /\ IF IsSome(cache)
       THEN /\ units' = [units EXCEPT ![u].pc = "ready",
                                      ![u].token = Some(Unwrap(cache).access_token)]
            /\ UNCHANGED tokenReqs
       ELSE /\ units' = [units EXCEPT ![u].pc = "token"]
            /\ tokenReqs' = tokenReqs + 1
    /\ UNCHANGED <<cache, issued, opsDone, lastOp>>
    /\ Untouched

\* get_token, from the token endpoint's answer on: the token is cached and
\* returned, or the error ends execute() (the `?`)
GetTokenFinish(u) ==
    /\ units[u].pc = "token"
    /\ \E resp \in TokenResponses :
          LET r == get_token_result(resp)
          IN  /\ issued' = IF resp.sent /\ IsSome(resp.json)
                           THEN issued \cup {Unwrap(resp.json).access_token}
                           ELSE issued
              /\ IF r.ok
                 THEN /\ cache' = Some(r.val)
                      /\ units' = [units EXCEPT ![u].pc = "ready",
                                                ![u].token = Some(r.val.access_token)]
                 ELSE /\ UNCHANGED cache
                      /\ units' = [units EXCEPT ![u].pc = "done", ![u].result = Some(r)]
    /\ UNCHANGED <<tokenReqs, opsDone, lastOp>>
    /\ Untouched

\* execute(), from the token to the send: the request is built from the
\* builder's fields; an upload without data ends here
Send(u) ==
    /\ units[u].pc = "ready"
    /\ LET un == units[u]
       IN  IF un.op = "upload" /\ ~UploadBody(un.b).ok
           THEN units' = [units EXCEPT ![u].pc = "done",
                                       ![u].result = Some(UploadBody(un.b))]
           ELSE units' = [units EXCEPT ![u].pc = "sent",
                                       ![u].req = Some(RequestFor(un.op, un.b, Unwrap(un.token)))]
    /\ UNCHANGED lastOp
    /\ NoIO /\ Untouched

\* execute(), from the response on
Recv(u) ==
    /\ units[u].pc = "sent"
    /\ LET un == units[u]
       IN  \E resp \in ResourceResponses(un.op, Unwrap(un.req), fixture) :
              units' = [units EXCEPT ![u].pc = "done", ![u].resp = Some(resp),
                                     ![u].result = Some(ResultFor(un.op, resp))]
    /\ UNCHANGED lastOp
    /\ NoIO /\ Untouched

\* The caller drops the finished builder and its result
Drop(u) ==
    /\ units[u].pc = "done"
    /\ units' = [units EXCEPT ![u] = IdleUnit]
    /\ opsDone' = opsDone + 1
    /\ UNCHANGED <<tokenReqs, cache, issued, lastOp>>
    /\ Untouched

\* execute(&self) leaves the builder to the caller, who may set fields and
\* execute it again
Reuse(u) ==
    /\ units[u].pc = "done"
    /\ units[u].op \notin {"info", "delete"}
    /\ opsDone + 1 < MaxOps
    /\ units' = [units EXCEPT ![u] = Configuring(units[u].op, units[u].b)]
    /\ opsDone' = opsDone + 1
    /\ UNCHANGED <<tokenReqs, cache, issued, lastOp>>
    /\ Untouched

\* ------------------------------------------- test_dataset_list_builder_threaded

\* std::thread::spawn of d.datasets().list().limit(5).offset(thread_num * 5).execute()
Spawn(u) ==
    /\ mainPc = "spawning"
    /\ spawned = u - 1
    /\ units' = [units EXCEPT ![u] =
                    Called("list", ListOffset(ListLimit(ListNew, PageSize), (u - 1) * PageSize))]
    /\ spawned' = u
    /\ mainPc' = IF u = NumThreads THEN "joining" ELSE mainPc
    /\ lastOp' = <<u, "execute">>
    /\ NoIO
    /\ UNCHANGED <<authVars, fixture, joined, ds>>

\* h.join().unwrap().unwrap(); ds.append(&mut res)
Join(u) ==
    /\ mainPc = "joining"
    /\ joined = u - 1
    /\ units[u].pc = "done"
    /\ LET res == Unwrap(units[u].result)
       IN  IF res.ok
           THEN /\ ds' = ds \o res.val
                /\ joined' = u
                /\ mainPc' = IF u = NumThreads THEN "asserting" ELSE mainPc
           ELSE /\ mainPc' = "panicked"
                /\ UNCHANGED <<ds, joined>>
    /\ UNCHANGED <<authVars, fixture, spawned, units, lastOp>>
    /\ NoIO

\* assert_eq!(ds.len(), 205): 41 threads of 5 datasets
AssertLen ==
    /\ mainPc = "asserting"
    /\ mainPc' = IF Len(ds) = NumThreads * PageSize THEN "passed" ELSE "failed"
    /\ UNCHANGED <<authVars, fixture, spawned, joined, ds, units, lastOp>>
    /\ NoIO

\* ------------------------------------------- the specifications

\* The credentials instance stays as constructed while the dataset API runs
AuthIdle ==
    /\ cred = CredDefault([CLIENT_ID |-> Some("id"), CLIENT_SECRET |-> Some("secret"),
                           DATA_SCOPE |-> TRUE, USER_SCOPE |-> FALSE,
                           AUDIT_SCOPE |-> FALSE, DASHBOARD_SCOPE |-> FALSE])
    /\ phase = "built"
    /\ calls = 0
    /\ ret = NoRet
    /\ lastFetch = NoFetch
    /\ sawFailure = FALSE
    /\ stderr = <<>>
    /\ authSent = {}

\* auth.rs: one credentials instance, built and then asked for its token
InitAuth == AuthStart /\ DataStart /\ fixture = LargeFixture /\ mainPc = "off"
SpecAuth == InitAuth /\ [][NextAuth]_vars

\* datasets.rs: one caller running operations one after another
InitData ==
    AuthIdle /\ DataStart /\ fixture \in {SmallFixture, LargeFixture} /\ mainPc = "off"

NextData ==
    \/ New(Caller)
    \/ Call(Caller)
    \/ Limit(Caller)
    \/ Offset(Caller)
    \/ Sort(Caller)
    \/ with_csv_headers(Caller)
    \/ data(Caller)
    \/ csv_str(Caller)
    \/ Execute(Caller)
    \/ GetTokenStart(Caller)
    \/ GetTokenFinish(Caller)
    \/ Send(Caller)
    \/ Recv(Caller)
    \/ Drop(Caller)
    \/ Reuse(Caller)

SpecData == InitData /\ [][NextData]_vars

\* datasets.rs: the threaded test, its threads sharing one client
InitThreads ==
    AuthIdle /\ DataStart /\ fixture \in {SmallFixture, LargeFixture} /\ mainPc = "spawning"

NextThreads ==
    \/ \E u \in Threads : Spawn(u)
    \/ \E u \in Threads : GetTokenStart(u)
    \/ \E u \in Threads : GetTokenFinish(u)
    \/ \E u \in Threads : Send(u)
    \/ \E u \in Threads : Recv(u)
    \/ \E u \in Threads : Join(u)
    \/ AssertLen

SpecThreads == InitThreads /\ [][NextThreads]_vars

\* ------------------------------------------- auth.rs: properties

\* C1: a get_access_token call on credentials whose token is set returns that
\* token's access_token, sends nothing to the token endpoint and leaves the
\* credentials (the cached token with them) as they were, at every call.
C1_CachedTokenReturned ==
    [][(calls' = calls + 1 /\ IsSome(cred.token)) =>
          /\ ret' = String(Unwrap(cred.token).access_token)
          /\ tokenReqs' = tokenReqs
          /\ authSent' = authSent
          /\ cred' = cred
          /\ phase' = phase]_vars

\* Two calls were served from the cache of an issued token
C1_Witness ==
    /\ calls >= 2
    /\ IsSome(cred.token)
    /\ Unwrap(cred.token).access_token = "tokA"
    /\ ret = String("tokA")
    /\ tokenReqs = 0

\* C2: after a fetch that the token endpoint answered with a token, the
\* credentials hold that token, and while every fetch is answered so, no more
\* than one request reaches the token endpoint.
C2_FetchPopulatesCache ==
    /\ (lastFetch.sent /\ is_success(lastFetch.status) /\ IsSome(lastFetch.json))
          => cred.token = Some(Unwrap(lastFetch.json))
    /\ ~sawFailure => tokenReqs <= 1

\* C5: a call whose fetch the token endpoint answered with a non-2xx ends in
\* a typed AuthRequestFailed error, not in a token value, after one request
\* per call.
C5_FailedFetchIsTypedError ==
    (phase = "built" /\ lastFetch.sent /\ ~is_success(lastFetch.status)) =>
        /\ ret.type = "AuthRequestFailed"
        /\ tokenReqs = calls

\* The names of the flags set, in the order data, user, audit, dashboard
SetFlags(sc) == SelectSeq(ScopeNames, LAMBDA n : sc[n])

RECURSIVE JoinWith(_, _)
JoinWith(names, sep) ==
    IF Len(names) <= 1 THEN names
    ELSE <<Head(names), sep>> \o JoinWith(Tail(names), sep)

\* C6: the scope string of every token request is the names of the set flags
\* among data, user, audit, dashboard, in that order, joined by "%20": no
\* leading or trailing separator, the empty string when none is set.
C6_ScopeStringIsJoin ==
    \A r \in authSent : r.scope = JoinWith(SetFlags(cred.domo_scope), "%20")

\* A request went out for the flags user and dashboard alone
C6_Witness ==
    /\ ~cred.domo_scope.data /\ cred.domo_scope.user
    /\ ~cred.domo_scope.audit /\ cred.domo_scope.dashboard
    /\ \E r \in authSent : r.scope = <<"user", "%20", "dashboard">>

\* ------------------------------------------- datasets.rs: properties

\* The unit's resource request was answered with a non-2xx status
AnsweredNon2xx(un) ==
    IsSome(un.resp) /\ Unwrap(un.resp).sent /\ ~is_success(Unwrap(un.resp).status)

\* The unit's resource request was answered with a 2xx status
Answered2xx(un) ==
    IsSome(un.resp) /\ Unwrap(un.resp).sent /\ is_success(Unwrap(un.resp).status)

Contains(msg, part) == \E i \in 1..Len(msg) : msg[i] = part

\* C3: every operation whose request was answered with a non-2xx status
\* returns an error that carries the status reason and the response body's
\* text; it does not return Ok.
C3_Non2xxIsReasonAndBodyError ==
    \A u \in Units :
        LET un == units[u]
        IN  (un.pc = "done" /\ AnsweredNon2xx(un)) =>
                /\ ~Unwrap(un.result).ok
                /\ Unwrap(un.result).err.kind = "DomoErr"
                /\ Contains(Unwrap(un.result).err.msg, canonical_reason(Unwrap(un.resp).status))
                /\ Contains(Unwrap(un.result).err.msg, Unwrap(un.resp).body.text)

NoDataErr == Err(DomoErr(<<"No Data was set to upload">>))

\* An upload builder on which no data() or csv_str() call has set the data
UploadWithoutData(un) == un.op = "upload" /\ ~IsSome(un.b.data)

\* C4 as stated: execute() of an upload builder without data ends with the
\* "No Data was set to upload" error whatever token acquisition gave, and
\* sends no PUT.
C4_NoDataWhateverTheToken ==
    \A u \in Units :
        LET un == units[u]
        IN  UploadWithoutData(un) =>
                /\ ~IsSome(un.req)
                /\ un.pc = "done" => Unwrap(un.result) = NoDataErr

\* C4 as amended: execute() of an upload builder without data always fails
\* and sends no PUT; the error is "No Data was set to upload" when token
\* acquisition gave a token, and token acquisition's error when it failed.
C4_NoDataOnceTokenAcquired ==
    \A u \in Units :
        LET un == units[u]
        IN  UploadWithoutData(un) =>
                /\ ~IsSome(un.req)
                /\ un.pc # "sent"
                /\ un.pc = "done" =>
                     /\ ~Unwrap(un.result).ok
                     /\ IsSome(un.token) => Unwrap(un.result) = NoDataErr
                     /\ ~IsSome(un.token) =>
                            Unwrap(un.result).err.kind \in
                                {"AuthRequestFailed", "AuthDeserializeFailed", "HttpRequestFailed"}

\* An upload without data ended with the no-data error, a token in hand
C4_Witness ==
    \E u \in Units :
        /\ UploadWithoutData(units[u])
        /\ units[u].pc = "done"
        /\ IsSome(units[u].token)
        /\ Unwrap(units[u].result) = NoDataErr
        /\ tokenReqs = 1

Setters == {"limit", "offset", "sort", "with_csv_headers", "data", "csv_str"}

\* The builder field a setter names
FieldOf(name) ==
    CASE name = "limit"            -> "limit"
      [] name = "offset"           -> "offset"
      [] name = "sort"             -> "sort"
      [] name = "with_csv_headers" -> "include_headers"
      [] name = "data"             -> "data"
      [] name = "csv_str"          -> "data"

\* No operation has been started: nothing was executed, called or dropped
BeforeFirstExecute ==
    opsDone = 0 /\ \A u \in Units : units[u].pc \in {"idle", "configuring"}

\* C7: a setter call changes no builder field but the one it names, and
\* changes neither the unit's progress, nor another unit, nor the token cache,
\* nor what was sent; and before the first execute() nothing was sent to the
\* token endpoint or to a dataset endpoint.
C7_SettersOnlySetTheirField ==
    /\ [](BeforeFirstExecute =>
            /\ tokenReqs = 0
            /\ cache = None
            /\ \A u \in Units : ~IsSome(units[u].req))
    /\ [][lastOp'[2] \in Setters =>
            LET u == lastOp'[1]
                f == FieldOf(lastOp'[2])
            IN  /\ tokenReqs' = tokenReqs
                /\ cache' = cache
                /\ issued' = issued
                /\ \A v \in Units \ {u} : units'[v] = units[v]
                /\ [units'[u] EXCEPT !.b = NoBuilder] = [units[u] EXCEPT !.b = NoBuilder]
                /\ DOMAIN units'[u].b = DOMAIN units[u].b
                /\ \A k \in DOMAIN units[u].b \ {f} : units'[u].b[k] = units[u].b[k]]_vars

\* limit(5) was called on a builder whose offset and sort were already set
C7_Witness ==
    /\ lastOp = <<Caller, "limit">>
    /\ units[Caller].b = [limit |-> Some(PageSize), offset |-> Some(PageSize),
                          sort |-> Some("updatedAt")]
    /\ BeforeFirstExecute
    /\ tokenReqs = 0

\* The fields of a list builder as the query string carries them
SentAs(b, q) ==
    \A k \in {"limit", "offset", "sort"} :
        /\ (k \in DOMAIN q) = IsSome(b[k])
        /\ k \in DOMAIN q => q[k] = Unwrap(b[k])

\* The records a list request for the builder's fields asks for
Asked(b) == (IF IsSome(b.offset) THEN Unwrap(b.offset) ELSE 0) + Unwrap(b.limit)

\* C9: a new list builder has limit 50, no offset and sort "name"; the
\* request execute() sends carries the builder's current fields; and when the
\* fixture holds the records asked for (limit of them, after the offset if
\* one is set) a 2xx answer makes execute() return exactly limit records.
C9_ListDefaultsAndLimit ==
    \A u \in Units :
        LET un == units[u]
        IN  /\ (lastOp = <<u, "list">> /\ un.pc = "configuring") =>
                  /\ un.b.limit = Some(50)
                  /\ un.b.offset = None
                  /\ un.b.sort = Some("name")
            /\ (un.op = "list" /\ IsSome(un.req)) => SentAs(un.b, Unwrap(un.req).query)
            /\ (un.op = "list" /\ un.pc = "done" /\ Answered2xx(un) /\ fixture >= Asked(un.b)) =>
                  /\ Unwrap(un.result).ok
                  /\ Len(Unwrap(un.result).val) = Unwrap(un.b.limit)

\* execute() of a builder no setter touched returned 50 records
C9_Witness ==
    \E u \in Units :
        /\ units[u].op = "list" /\ units[u].pc = "done"
        /\ units[u].b = [limit |-> Some(50), offset |-> None, sort |-> Some("name")]
        /\ Answered2xx(units[u])
        /\ Unwrap(units[u].result).ok
        /\ Len(Unwrap(units[u].result).val) = 50

\* ------------------------------------------- the threaded test: properties

\* Thread u asks for the records after the first (u - 1) pages
Range(u) == ((u - 1) * PageSize + 1) .. (u * PageSize)

NoDuplicate(seq) == \A i, j \in 1..Len(seq) : seq[i] = seq[j] => i = j

Elements(seq) == {seq[i] : i \in 1..Len(seq)}

\* The fixture holds a page for every thread and every endpoint answered 2xx
FixtureServes ==
    /\ fixture >= NumThreads * PageSize
    /\ \A u \in Threads : units[u].pc = "done" => Answered2xx(units[u])

\* C8: with a fixture of at least NumThreads * PageSize records whose
\* endpoints answer 2xx, in every interleaving every thread's execute()
\* returns Ok with its own page, the join panics on none, and the joined
\* results are NumThreads * PageSize records without a duplicate: the union
\* of the ranges asked for.
C8_DisjointPagesUnion ==
    FixtureServes =>
        /\ mainPc \notin {"panicked", "failed"}
        /\ \A u \in Threads :
              units[u].pc = "done" =>
                  /\ Unwrap(units[u].result).ok
                  /\ Elements(Unwrap(units[u].result).val) = Range(u)
        /\ NoDuplicate(ds)
        /\ Elements(ds) = UNION {Range(u) : u \in 1..joined}
        /\ joined = NumThreads =>
              /\ Len(ds) = NumThreads * PageSize
              /\ Elements(ds) = 1..(NumThreads * PageSize)

\* The test passed although every thread fetched a token of its own
C8_Witness ==
    /\ mainPc = "passed"
    /\ FixtureServes
    /\ tokenReqs = NumThreads
    /\ Len(ds) = NumThreads * PageSize

====
